---- MODULE Spec2Model ----
(***************************************************************************)
(* Model of frontend/src/pages/Reports.js: the Reports component's state,  *)
(* its refresh pipeline (fetchReportData and the handlers that start it),  *)
(* the aggregation processReportData, and the two exports exportToPDF and  *)
(* exportToCSVReport.                                                      *)
(*                                                                         *)
(* Four specifications: Spec is the component and its refreshes,           *)
(* SpecAggregation is processReportData on arbitrary record sequences,     *)
(* SpecExport is one export from a rendered report, SpecCharts is one      *)
(* chart projection of a held summary.                                     *)
(*                                                                         *)
(* Numbers.  A JavaScript number is modelled as a pair <<n, d>> of         *)
(* integers standing for the rational n/d in lowest terms; d = 0 is NaN.   *)
(* Amounts are whole numbers, so every sum is exact and the only           *)
(* non-finite value that arises is NaN.                                    *)
(*                                                                         *)
(* Objects.  A JavaScript object used as a mapping (categoryTotals,        *)
(* dailyTotals) is a sequence of [key, value] entries in insertion order,  *)
(* the order Object.keys / Object.entries enumerate.                       *)
(***************************************************************************)
EXTENDS Integers, Sequences, FiniteSets, TLC

VARIABLES
    loading,      \* useState(true)                              (line 76)
    period,       \* useState('month')                           (line 77)
    customDate,   \* useState({startDate: null, endDate: null})  (line 78)
    expenses,     \* useState([])                                (line 82)
    budgets,      \* useState([])                                (line 83)
    error,        \* useErrorHandler().error                     (line 84)
    reportData,   \* useState({})                                (line 85)
    inflight,     \* fetchReportData calls suspended at an await, oldest first
    reqSeq,       \* number of fetchReportData calls started so far
    installed,    \* which call's result is held in expenses/reportData (0: none)
    lastOutcome,  \* how the most recently finished call ended
    heldRange,    \* the dateRange of the call whose result is held
    records,      \* aggregation harness: the argument of processReportData
    summary,      \* aggregation harness: its result
    chartData,    \* what the last chart projection returned
    exportPc,     \* where the export started from this render stands
    isNativePlatform, \* Capacitor.isNativePlatform()                (line 426)
    logoImg,      \* the loaded logo image's width and height        (line 267)
    pdf,          \* the jsPDF document: page count and what is drawn (line 262)
    yPos,         \* the layout cursor                                (line 264)
    catIdx,       \* category loop: entry of categoryTotals being laid out
    rowIdx,       \* row loop: position in the category's filtered expenses
    saved,        \* documents delivered, by Filesystem.writeFile or pdf.save
    alerts,       \* window.alert messages shown
    csvFiles      \* calls of exportToCSV(csvData, filename)

exportVars == <<exportPc, isNativePlatform, logoImg, pdf, yPos, catIdx, rowIdx,
                saved, alerts, csvFiles>>

vars == <<loading, period, customDate, expenses, budgets, error, reportData,
          inflight, reqSeq, installed, lastOutcome, heldRange, records, summary,
          chartData, exportVars>>

orchVars == <<loading, period, customDate, expenses, budgets, error, reportData,
              inflight, reqSeq, installed, lastOutcome, heldRange>>

(***************************************************************************)
(* Bounds                                                                  *)
(***************************************************************************)
MaxRefreshes == 3     \* fetchReportData calls per behaviour
MaxRecords == 3       \* length of a record sequence given to processReportData
MaxFoodRows == 46     \* food items among the held records of an export
MaxRentRows == 1      \* rent items among the held records of an export
MaxCategories == 6    \* categories of a charted report
MaxUnparsable == 3    \* categories of a charted report with unparsable amounts

(***************************************************************************)
(* JavaScript numbers                                                      *)
(***************************************************************************)
NaN == <<0, 0>>

IsNaN(x) == x[2] = 0

Num(n) == <<n, 1>>

RECURSIVE GCD(_, _)
GCD(a, b) == IF b = 0 THEN a ELSE GCD(b, a % b)

\* a / b for numbers; 0/0 and anything involving NaN is NaN.
Normalize(n, d) ==
    IF d = 0 THEN NaN
    ELSE LET g == GCD(n, d) IN IF g = 0 THEN <<0, 1>> ELSE <<n \div g, d \div g>>

\* a + b
Plus(a, b) ==
    IF IsNaN(a) \/ IsNaN(b) THEN NaN
    ELSE Normalize(a[1] * b[2] + b[1] * a[2], a[2] * b[2])

\* a / k for a number a and an array length k >= 1
DivideBy(a, k) == IF IsNaN(a) THEN NaN ELSE Normalize(a[1], a[2] * k)

\* x || 0 : 0 and NaN are falsy, so is the undefined of a missing key
OrZero(found, x) == IF ~found \/ IsNaN(x) \/ x[1] = 0 THEN Num(0) ELSE x

(***************************************************************************)
(* Strings are sequences of one-character strings.                         *)
(***************************************************************************)
DigitChars == <<"0", "1", "2", "3", "4", "5", "6", "7", "8", "9">>

IsDigit(c) == \E i \in 1..10 : DigitChars[i] = c

DigitValue(c) == (CHOOSE i \in 1..10 : DigitChars[i] = c) - 1

RECURSIVE DigitPrefixLen(_)
DigitPrefixLen(s) ==
    IF s = <<>> \/ ~IsDigit(Head(s)) THEN 0 ELSE 1 + DigitPrefixLen(Tail(s))

RECURSIVE DecimalValue(_, _)
DecimalValue(s, acc) ==
    IF s = <<>> THEN acc ELSE DecimalValue(Tail(s), 10 * acc + DigitValue(Head(s)))

\* parseFloat: the value of the longest numeric prefix, NaN when there is none.
parseFloat(s) ==
    LET k == DigitPrefixLen(s)
    IN IF k = 0 THEN NaN ELSE Num(DecimalValue(SubSeq(s, 1, k), 0))

RECURSIVE Digits(_)
Digits(n) ==
    IF n < 10 THEN <<DigitChars[n + 1]>>
    ELSE Digits(n \div 10) \o <<DigitChars[(n % 10) + 1]>>

\* new Date(d).toLocaleDateString(): month/day/year, no zero padding, no time.
toLocaleDateString(d) ==
    Digits(d.month) \o <<"/">> \o Digits(d.day) \o <<"/">> \o Digits(d.year)

(***************************************************************************)
(* Objects as insertion-ordered mappings                                   *)
(***************************************************************************)
HasKey(obj, k) == \E i \in 1..Len(obj) : obj[i].key = k

\* obj[k] = (obj[k] || 0) + amount
Accumulate(obj, k, amount) ==
    IF HasKey(obj, k)
    THEN [i \in 1..Len(obj) |->
            IF obj[i].key = k
            THEN [key |-> k, value |-> Plus(OrZero(TRUE, obj[i].value), amount)]
            ELSE obj[i]]
    ELSE Append(obj, [key |-> k, value |-> Plus(OrZero(FALSE, NaN), amount)])

(***************************************************************************)
(* processReportData                                                       *)
(***************************************************************************)
\* The accumulators after the forEach over the first n records; acc, the
\* accumulators before the n-th record, is bound as a value so that it is
\* computed once.
RECURSIVE ForEachExpense(_, _)
ForEachExpense(exps, n) ==
    IF n = 0
    THEN [totalSpent |-> Num(0), categoryTotals |-> <<>>, dailyTotals |-> <<>>]
    ELSE CHOOSE after \in
            {LET expense == exps[n]
                 amount == parseFloat(expense.amount)
                 date == toLocaleDateString(expense.date)
             IN [totalSpent |-> Plus(acc.totalSpent, amount),
                 categoryTotals |-> Accumulate(acc.categoryTotals, expense.category, amount),
                 dailyTotals |-> Accumulate(acc.dailyTotals, date, amount)] :
             acc \in {ForEachExpense(exps, n - 1)}} : TRUE

AverageTransactionNoGuard(totalSpent, length) ==
    IF length > 0 THEN DivideBy(totalSpent, length) ELSE NaN

\* expenses.length > 0 ? totalSpent / expenses.length : 0
AverageTransaction(totalSpent, length) ==
    IF length > 0 THEN DivideBy(totalSpent, length) ELSE Num(0)

processReportData(exps) ==
    LET acc == ForEachExpense(exps, Len(exps))
    IN [totalSpent |-> acc.totalSpent,
        categoryTotals |-> acc.categoryTotals,
        dailyTotals |-> acc.dailyTotals,
        transactionCount |-> Len(exps),
        averageTransaction |-> AverageTransaction(acc.totalSpent, Len(exps))]

(***************************************************************************)
(* Data the environment supplies                                           *)
(***************************************************************************)
Null == "null"

\* Values of the Time Period <Select> (lines 558-565).  'today', 'week',
\* 'lastMonth' and 'lastYear' are left out: like 'month' and 'year' they
\* reach getDateRange(period) and nothing else.
Periods == {"month", "year", "custom", "all"}

\* Values a DatePicker can hand to onChange; Null is its 'clear' action.
PickerDates == {"d1", "d2"}

\* The window events handleDataUpdate is registered for (lines 116-122).
Events == {"expenseAdded", "expenseUpdated", "expenseDeleted",
           "budgetAdded", "budgetUpdated", "budgetDeleted", "currencyChanged"}

Categories == {"food", "rent"}

ExpenseDates == {[year |-> 2024, month |-> 9, day |-> 2],
                 [year |-> 2024, month |-> 10, day |-> 1]}

\* expense.amount as the API delivers it: numeric text, text with a numeric
\* prefix, and text that is no number at all.
RawAmounts == {<<"5">>, <<"1", "2">>, <<"7", "x">>, <<"x">>}

ExpenseRecords == [amount : RawAmounts, category : Categories, date : ExpenseDates]

RECURSIVE SeqsUpTo(_, _)
SeqsUpTo(S, n) ==
    IF n = 0 THEN {<<>>}
    ELSE LET shorter == SeqsUpTo(S, n - 1)
         IN shorter \cup {Append(s, x) : s \in {t \in shorter : Len(t) = n - 1}, x \in S}

\* What ApiService.getExpenses can resolve to: null/undefined, or an array.
NoResponse == [isNull |-> TRUE, items |-> <<>>]

Sep2Food == [amount |-> <<"5">>, category |-> "food",
             date |-> [year |-> 2024, month |-> 9, day |-> 2]]

Oct1Rent == [amount |-> <<"1", "2">>, category |-> "rent",
             date |-> [year |-> 2024, month |-> 10, day |-> 1]]

ExpensesResponses ==
    {NoResponse} \cup
    {[isNull |-> FALSE, items |-> s] : s \in {<<Sep2Food>>, <<Sep2Food, Oct1Rent>>}}

\* What ApiService.getBudgets can resolve to.
BudgetsResponses == {[isNull |-> FALSE, items |-> <<"budget">>]}

\* response || []
OrEmptyArray(response) == IF response.isNull THEN <<>> ELSE response.items

(***************************************************************************)
(* Component state                                                         *)
(***************************************************************************)
\* useState({}) : an object with no properties.
EmptyObject == <<>>

\* The literal of lines 143-149.
EmptySummary ==
    [totalSpent |-> Num(0), categoryTotals |-> <<>>, dailyTotals |-> <<>>,
     transactionCount |-> 0, averageTransaction |-> Num(0)]

NoCustomDate == [startDate |-> Null, endDate |-> Null]

\* period === 'custom' && customDate.startDate && customDate.endDate
CustomComplete(p, cd) == p = "custom" /\ cd.startDate # Null /\ cd.endDate # Null

\* period === 'custom' && (!customDate.startDate || !customDate.endDate)
CustomIncomplete(p, cd) == p = "custom" /\ (cd.startDate = Null \/ cd.endDate = Null)

\* The dateRange fetchReportData computes from the period and customDate it
\* closes over.  getDateRange(period), the account creation date and
\* new Date() are left symbolic.
DateRange(p, cd) ==
    IF p = "all"
    THEN [of |-> p, startDate |-> "createdAt",
          endDate |-> IF cd.endDate # Null THEN cd.endDate ELSE "now"]
    ELSE IF p = "custom"
    THEN [of |-> p, startDate |-> cd.startDate, endDate |-> cd.endDate]
    ELSE [of |-> p, startDate |-> "getDateRange.startDate",
          endDate |-> "getDateRange.endDate"]

\* No call's result is held.
NoRange == [of |-> "none", startDate |-> Null, endDate |-> Null]

\* The render whose fetchReportData handleDataUpdate captured: the effect
\* of lines 110-133 has no dependencies, so it is that of the first render.
MountPeriod == "month"

MountCustomDate == NoCustomDate

(***************************************************************************)
(* fetchReportData (lines 135-187)                                         *)
(*                                                                         *)
(* A call runs synchronously up to its first await: FetchReportData is     *)
(* that part, for the period p and customDate cd the called closure        *)
(* captured.  The call then sits in inflight until getExpenses settles     *)
(* (GetExpensesResolves / GetExpensesRejects) and, after that, until       *)
(* getBudgets settles (GetBudgetsResolves / GetBudgetsRejects).            *)
(***************************************************************************)
Call(id, p, cd) ==
    [id |-> id, dateRange |-> DateRange(p, cd), awaiting |-> "getExpenses",
     expensesResponse |-> NoResponse]

FetchReportData(p, cd) ==
    /\ reqSeq < MaxRefreshes
    /\ reqSeq' = reqSeq + 1
    /\ IF CustomIncomplete(p, cd)
       THEN \* lines 140-152, then the finally of line 185
            /\ expenses' = <<>>
            /\ budgets' = <<>>
            /\ reportData' = EmptySummary
            /\ loading' = FALSE
            /\ installed' = reqSeq + 1
            /\ lastOutcome' = "incomplete"
            /\ heldRange' = DateRange(p, cd)
            /\ UNCHANGED <<inflight, error>>
       ELSE \* line 137, lines 154-170 up to the await
            /\ loading' = TRUE
            /\ inflight' = Append(inflight, Call(reqSeq + 1, p, cd))
            /\ UNCHANGED <<expenses, budgets, reportData, error, installed, lastOutcome,
                           heldRange>>

Without(i) == SelectSeq(inflight, LAMBDA c : c.id # inflight[i].id)

\* await ApiService.getExpenses(...) resolves with r (line 167); the call
\* goes on to await ApiService.getBudgets() (line 172).
GetExpensesResolves(i, r) ==
    /\ inflight[i].awaiting = "getExpenses"
    /\ inflight' = [inflight EXCEPT ![i].awaiting = "getBudgets",
                                    ![i].expensesResponse = r]
    /\ UNCHANGED <<loading, period, customDate, expenses, budgets, error,
                   reportData, reqSeq, installed, lastOutcome, heldRange, records, summary,
                   chartData, exportVars>>

CatchFinallyKeepsLoading(i) ==
    /\ error' = TRUE
    /\ UNCHANGED loading
    /\ lastOutcome' = "failed"
    /\ inflight' = Without(i)
    /\ UNCHANGED <<period, customDate, expenses, budgets, reportData, reqSeq,
                   installed, heldRange, records, summary, chartData, exportVars>>

\* catch (lines 181-183) and finally (lines 184-186)
CatchFinally(i) ==
    /\ error' = TRUE
    /\ loading' = FALSE
    /\ lastOutcome' = "failed"
    /\ inflight' = Without(i)
    /\ UNCHANGED <<period, customDate, expenses, budgets, reportData, reqSeq,
                   installed, heldRange, records, summary, chartData, exportVars>>

GetExpensesRejects(i) ==
    /\ inflight[i].awaiting = "getExpenses"
    /\ CatchFinally(i)

GetBudgetsRejects(i) ==
    /\ inflight[i].awaiting = "getBudgets"
    /\ CatchFinally(i)

\* await ApiService.getBudgets() resolves with b: lines 174-179, then finally.
GetBudgetsResolves(i, b) ==
    /\ inflight[i].awaiting = "getBudgets"
    /\ expenses' = OrEmptyArray(inflight[i].expensesResponse)
    /\ budgets' = OrEmptyArray(b)
    /\ reportData' = processReportData(OrEmptyArray(inflight[i].expensesResponse))
    /\ loading' = FALSE
    /\ installed' = inflight[i].id
    /\ lastOutcome' = "ok"
    /\ heldRange' = inflight[i].dateRange
    /\ inflight' = Without(i)
    /\ UNCHANGED <<period, customDate, error, reqSeq, records, summary, chartData, exportVars>>

(***************************************************************************)
(* Handlers                                                                *)
(***************************************************************************)
NoFetch ==
    UNCHANGED <<loading, expenses, budgets, error, reportData, inflight, reqSeq,
                installed, lastOutcome, heldRange>>

\* The effect of lines 90-101, run by a render with period p and customDate cd.
PeriodEffect(p, cd) ==
    IF p # "custom"
    THEN FetchReportData(p, cd)
    ELSE IF CustomComplete(p, cd)
    THEN FetchReportData(p, cd)
    ELSE NoFetch

\* The page renders only a spinner while loading (lines 515-521): the
\* controls below exist when loading is false.
ControlsRendered == ~loading

SelectPeriodKeepsBounds(v) ==
    /\ ControlsRendered
    /\ v # period
    /\ period' = v
    /\ customDate' = customDate
    /\ PeriodEffect(v, customDate')
    /\ UNCHANGED <<records, summary, chartData, exportVars>>

\* Select onChange (lines 551-556), then the effect on [period].
SelectPeriod(v) ==
    /\ ControlsRendered
    /\ v # period
    /\ period' = v
    /\ customDate' = IF v # "custom" THEN NoCustomDate ELSE customDate
    /\ PeriodEffect(v, customDate')
    /\ UNCHANGED <<records, summary, chartData, exportVars>>

\* Start Date DatePicker onChange (lines 600-602), rendered for 'custom' only.
SetStartDate(d) ==
    /\ ControlsRendered
    /\ period = "custom"
    /\ d # customDate.startDate
    /\ customDate' = [customDate EXCEPT !.startDate = d]
    /\ NoFetch
    /\ UNCHANGED <<period, records, summary, chartData, exportVars>>

\* End Date DatePicker onChange (lines 635-637).
SetEndDate(d) ==
    /\ ControlsRendered
    /\ period = "custom"
    /\ d # customDate.endDate
    /\ customDate' = [customDate EXCEPT !.endDate = d]
    /\ NoFetch
    /\ UNCHANGED <<period, records, summary, chartData, exportVars>>

\* Apply button (lines 668-679, disabled while a bound is unset) calling
\* handleDateSelectionComplete (lines 104-108).
Apply ==
    /\ ControlsRendered
    /\ period = "custom"
    /\ ~(customDate.startDate = Null \/ customDate.endDate = Null)
    /\ IF CustomComplete(period, customDate)
       THEN FetchReportData(period, customDate)
       ELSE NoFetch
    /\ UNCHANGED <<period, customDate, records, summary, chartData, exportVars>>

\* userProfile.currency (line 88) takes a new value in UserContext, which
\* re-renders the page; the effect of lines 90-101 depends on it and runs.
\* The value itself is read by formatCurrency only and is not kept here.
CurrencyChange ==
    /\ PeriodEffect(period, customDate)
    /\ UNCHANGED <<period, customDate, records, summary, chartData, exportVars>>

\* handleDataUpdate (lines 112-114): the fetchReportData of the first render.
HandleDataUpdate(ev) ==
    /\ FetchReportData(MountPeriod, MountCustomDate)
    /\ UNCHANGED <<period, customDate, records, summary, chartData, exportVars>>

(***************************************************************************)
(* Export state before any export is started                               *)
(***************************************************************************)
\* No jsPDF document has been created yet.
NoDocument == [pages |-> 0, drawn |-> <<>>]

\* new window.Image() before it has loaded.
NoLogo == [width |-> 0, height |-> 0]

\* No chart projection has been computed.
NoChart == [of |-> "none", labels |-> <<>>, data |-> <<>>, backgroundColor |-> <<>>]

ExportNotStarted(native) ==
    /\ chartData = NoChart
    /\ exportPc = "idle"
    /\ isNativePlatform = native
    /\ logoImg = NoLogo
    /\ pdf = NoDocument
    /\ yPos = 0
    /\ catIdx = 0
    /\ rowIdx = 0
    /\ saved = <<>>
    /\ alerts = <<>>
    /\ csvFiles = <<>>

(***************************************************************************)
(* The component                                                           *)
(***************************************************************************)
\* After the first render and its effects: the period effect has called
\* fetchReportData for 'month', which awaits getExpenses.
Init ==
    /\ loading = TRUE
    /\ period = "month"
    /\ customDate = NoCustomDate
    /\ expenses = <<>>
    /\ budgets = <<>>
    /\ error = FALSE
    /\ reportData = EmptyObject
    /\ inflight = <<Call(1, "month", NoCustomDate)>>
    /\ reqSeq = 1
    /\ installed = 0
    /\ lastOutcome = "none"
    /\ heldRange = NoRange
    /\ records = <<>>
    /\ summary = EmptyObject
    /\ ExportNotStarted(FALSE)

Next ==
    \/ \E v \in Periods : SelectPeriod(v)
    \/ \E d \in PickerDates \cup {Null} : SetStartDate(d)
    \/ \E d \in PickerDates \cup {Null} : SetEndDate(d)
    \/ Apply
    \/ CurrencyChange
    \/ \E ev \in Events : HandleDataUpdate(ev)
    \/ \E i \in 1..Len(inflight), r \in ExpensesResponses : GetExpensesResolves(i, r)
    \/ \E i \in 1..Len(inflight) : GetExpensesRejects(i)
    \/ \E i \in 1..Len(inflight), b \in BudgetsResponses : GetBudgetsResolves(i, b)
    \/ \E i \in 1..Len(inflight) : GetBudgetsRejects(i)

Spec == Init /\ [][Next]_vars

(***************************************************************************)
(* processReportData on its own: any record sequence up to MaxRecords.     *)
(***************************************************************************)
InitAggregation ==
    /\ records \in SeqsUpTo(ExpenseRecords, MaxRecords)
    /\ summary = EmptyObject
    /\ loading = TRUE
    /\ period = "month"
    /\ customDate = NoCustomDate
    /\ expenses = <<>>
    /\ budgets = <<>>
    /\ error = FALSE
    /\ reportData = EmptyObject
    /\ inflight = <<>>
    /\ reqSeq = 0
    /\ installed = 0
    /\ lastOutcome = "none"
    /\ heldRange = NoRange
    /\ ExportNotStarted(FALSE)

Aggregate ==
    /\ summary' = processReportData(records)
    /\ UNCHANGED records
    /\ UNCHANGED orchVars
    /\ UNCHANGED exportVars
    /\ UNCHANGED chartData

NextAggregation == Aggregate

SpecAggregation == InitAggregation /\ [][NextAggregation]_vars

(***************************************************************************)
(* exportToPDF (lines 259-455)                                             *)
(*                                                                         *)
(* The click handler creates the document and starts loading the logo      *)
(* (ExportToPDF); everything else runs in logoImg.onload, which the        *)
(* browser calls once the image has loaded.  The callback is followed      *)
(* through its loops: LogoLoads is lines 270-352, SectionHeader lines      *)
(* 355-380, Row one iteration of lines 383-400, SectionEnd lines 401-405,  *)
(* NameAndDeliver lines 412-449 up to the await of Filesystem.writeFile,   *)
(* which WriteFileResolves / WriteFileRejects settle.  Only vertical       *)
(* positions are kept; colours, fonts and x coordinates are left out.      *)
(***************************************************************************)
\* let logoWidth = 40; let logoHeight = 40
LogoMax == 40

\* let yPos = 20, and yPos = 20 after pdf.addPage()
PageTop == 20

\* if (yPos > 270)
PageLimit == 270

\* new jsPDF() is an A4 portrait page in millimetres: 297 high.
PageHeight == 297

\* Sizes /logo.png can have: square, wide, wider, tall.  The heights are
\* chosen so that the scaled height is a whole number.
LogoImages == {[width |-> 512, height |-> 512], [width |-> 400, height |-> 200],
               [width |-> 400, height |-> 100], [width |-> 200, height |-> 400]}

\* Lines 271-277: the height the logo is drawn with.
LogoHeight(img) ==
    IF img.width > img.height
    THEN (img.height * LogoMax) \div img.width
    ELSE LogoMax

\* expenseCategories: one key with a display name; other keys have none.
expenseCategories == [food |-> "Food & Dining"]

\* expenseCategories[category]?.name || category
CategoryName(category) ==
    IF category \in DOMAIN expenseCategories
    THEN expenseCategories[category]
    ELSE category

\* Held records of an export: food items first, then rent items.
FoodItem == [amount |-> <<"5">>, category |-> "food",
             date |-> [year |-> 2024, month |-> 9, day |-> 2],
             description |-> "lunch", notes |-> ""]

RentItem == [amount |-> <<"1", "2">>, category |-> "rent",
             date |-> [year |-> 2024, month |-> 10, day |-> 1],
             description |-> "", notes |-> "flat"]

Repeat(x, n) == [i \in 1..n |-> x]

ExportDatasets ==
    {Repeat(FoodItem, n) \o Repeat(RentItem, m) :
        n \in 0..MaxFoodRows, m \in 0..MaxRentRows}

\* One thing put on the current page with the cursor at position at: a
\* filled rectangle or line from top to bottom and/or a text at text
\* (0: none).
Drawn(kind, at, top, bottom, text, category, expense, banded) ==
    [kind |-> kind, page |-> pdf.pages, at |-> at, top |-> top, bottom |-> bottom,
     text |-> text, category |-> category, expense |-> expense,
     banded |-> banded]

ExportToPDFRefreshes ==
    /\ ControlsRendered
    /\ exportPc = "idle"
    /\ pdf' = [pages |-> 1, drawn |-> <<>>]
    /\ yPos' = PageTop
    /\ exportPc' = "logoLoading"
    /\ UNCHANGED <<isNativePlatform, logoImg, catIdx, rowIdx, saved, alerts, csvFiles>>
    /\ FetchReportData(period, customDate)
    /\ UNCHANGED <<period, customDate, records, summary, chartData>>

\* Lines 259-268 and 450-455: nothing in the try block throws, so the
\* handler returns with the callback registered.
ExportToPDF ==
    /\ ControlsRendered
    /\ exportPc = "idle"
    /\ pdf' = [pages |-> 1, drawn |-> <<>>]
    /\ yPos' = PageTop
    /\ exportPc' = "logoLoading"
    /\ UNCHANGED <<isNativePlatform, logoImg, catIdx, rowIdx, saved, alerts, csvFiles>>
    /\ UNCHANGED orchVars
    /\ UNCHANGED <<records, summary, chartData>>

\* formatDate(date): date.toLocaleDateString(...) on null is a TypeError.
FormatDateThrows(date) == date = Null

\* Lines 300-310: the dateRange the header prints, from the period and
\* customDate of the render the export was started in.
HeaderDateRange ==
    IF period = "all"
    THEN [of |-> period, startDate |-> "createdAt", endDate |-> "now"]
    ELSE IF period = "custom"
    THEN [of |-> period, startDate |-> customDate.startDate,
          endDate |-> customDate.endDate]
    ELSE [of |-> period, startDate |-> "getDateRange.startDate",
          endDate |-> "getDateRange.endDate"]

\* Lines 300-317: only a custom period formats the picker's bounds.
PeriodTextThrows ==
    /\ period = "custom"
    /\ (FormatDateThrows(customDate.startDate) \/ FormatDateThrows(customDate.endDate))

\* Lines 270-352.  A throw inside the async callback rejects the promise
\* the browser discards: the try/catch of exportToPDF has long returned.
LogoLoads(img) ==
    /\ exportPc = "logoLoading"
    /\ logoImg' = img
    /\ LET titleAt == 10 + LogoHeight(img) + 10
           periodAt == titleAt + 15
           summaryAt == periodAt + 20
           boxAt == summaryAt + 10
           breakdownAt == boxAt + 30
           logo == Drawn("logo", yPos, 10, 10 + LogoHeight(img), 0, "", 0, FALSE)
           title == Drawn("title", titleAt, 0, 0, titleAt, "", 0, FALSE)
           periodText == Drawn("period", periodAt, 0, 0, periodAt, "", 0, FALSE)
           summaryTitle == Drawn("summaryTitle", summaryAt, summaryAt + 2, summaryAt + 2,
                                 summaryAt, "", 0, FALSE)
           summaryBox == Drawn("summaryBox", boxAt, boxAt, boxAt + 24, boxAt + 8, "", 0, FALSE)
           breakdown == Drawn("breakdownTitle", breakdownAt, breakdownAt + 2, breakdownAt + 2,
                              breakdownAt, "", 0, FALSE)
       IN IF PeriodTextThrows
          THEN /\ pdf' = [pdf EXCEPT !.drawn = @ \o <<logo, title>>]
               /\ yPos' = periodAt
               /\ exportPc' = "unhandledRejection"
               /\ UNCHANGED catIdx
          ELSE /\ pdf' = [pdf EXCEPT !.drawn = @ \o <<logo, title, periodText,
                                                     summaryTitle, summaryBox, breakdown>>]
               /\ yPos' = breakdownAt + 10
               /\ catIdx' = 1
               /\ exportPc' = "forEachCategory"
    /\ UNCHANGED <<isNativePlatform, rowIdx, saved, alerts, csvFiles>>
    /\ UNCHANGED orchVars
    /\ UNCHANGED <<records, summary, chartData>>

\* The image does not load.  No onerror handler is registered (lines
\* 267-269), so nothing runs.
LogoFails ==
    /\ exportPc = "logoLoading"
    /\ exportPc' = "logoError"
    /\ UNCHANGED <<isNativePlatform, logoImg, pdf, yPos, catIdx, rowIdx, saved,
                   alerts, csvFiles>>
    /\ UNCHANGED orchVars
    /\ UNCHANGED <<records, summary, chartData>>

\* Object.entries(reportData.categoryTotals || {})
CategoryEntries ==
    IF reportData = EmptyObject THEN <<>> ELSE reportData.categoryTotals

FilteredExpensesAll(category) == [i \in 1..Len(expenses) |-> i]

\* expenses.filter(exp => exp.category === category), as positions in expenses
FilteredExpenses(category) ==
    SelectSeq([i \in 1..Len(expenses) |-> i],
              LAMBDA i : expenses[i].category = category)

\* if (yPos > 270) { pdf.addPage(); yPos = 20; } applied to document doc
\* and cursor y.
AddPageIfPastNever(doc, y) == [pdf |-> doc, yPos |-> y]

AddPageIfPastKeepsCursor(doc, y) ==
    IF y > PageLimit
    THEN [pdf |-> [doc EXCEPT !.pages = @ + 1], yPos |-> y]
    ELSE [pdf |-> doc, yPos |-> y]

AddPageIfPast(doc, y) ==
    IF y > PageLimit
    THEN [pdf |-> [doc EXCEPT !.pages = @ + 1], yPos |-> PageTop]
    ELSE [pdf |-> doc, yPos |-> y]

\* Lines 355-380: the section's header bar and its table header.
SectionHeader ==
    /\ exportPc = "forEachCategory"
    /\ catIdx <= Len(CategoryEntries)
    /\ LET category == CategoryEntries[catIdx].key
           bar == Drawn("sectionHeader", yPos, yPos, yPos + 12, yPos + 9, category, 0, FALSE)
           columns == Drawn("tableHeader", yPos + 16, yPos + 16 + 6, yPos + 16 + 6, yPos + 16,
                            category, 0, FALSE)
       IN pdf' = [pdf EXCEPT !.drawn = @ \o <<bar, columns>>]
    /\ yPos' = yPos + 16 + 6 + 2
    /\ rowIdx' = 1
    /\ exportPc' = "forEachRow"
    /\ UNCHANGED <<isNativePlatform, logoImg, catIdx, saved, alerts, csvFiles>>
    /\ UNCHANGED orchVars
    /\ UNCHANGED <<records, summary, chartData>>

\* (yPos / 7) % 2 < 1, for a whole-number yPos
Banded(y) == (y \div 7) % 2 = 0

\* Lines 383-400: one line item, then the cursor advances and is checked.
Row ==
    /\ exportPc = "forEachRow"
    /\ LET category == CategoryEntries[catIdx].key
           rows == FilteredExpenses(category)
       IN /\ rowIdx <= Len(rows)
          /\ LET fill == Banded(yPos)
                 row == Drawn("row", yPos, IF fill THEN yPos - 2 ELSE yPos + 4,
                              IF fill THEN yPos - 2 + 7 ELSE yPos + 4,
                              yPos + 4, category, rows[rowIdx], fill)
                 after == AddPageIfPast([pdf EXCEPT !.drawn = Append(@, row)], yPos + 8)
             IN /\ pdf' = after.pdf
                /\ yPos' = after.yPos
    /\ rowIdx' = rowIdx + 1
    /\ UNCHANGED <<exportPc, isNativePlatform, logoImg, catIdx, saved, alerts, csvFiles>>
    /\ UNCHANGED orchVars
    /\ UNCHANGED <<records, summary, chartData>>

\* Lines 401-405: the gap after a section, and on to the next entry.
SectionEnd ==
    /\ exportPc = "forEachRow"
    /\ rowIdx > Len(FilteredExpenses(CategoryEntries[catIdx].key))
    /\ LET after == AddPageIfPast(pdf, yPos + 10)
       IN /\ pdf' = after.pdf
          /\ yPos' = after.yPos
    /\ catIdx' = catIdx + 1
    /\ rowIdx' = 0
    /\ exportPc' = "forEachCategory"
    /\ UNCHANGED <<isNativePlatform, logoImg, saved, alerts, csvFiles>>
    /\ UNCHANGED orchVars
    /\ UNCHANGED <<records, summary, chartData>>

\* customDate.startDate.toISOString() on null is a TypeError (lines 413-415).
GetFilenameDatePartThrows ==
    /\ period = "custom"
    /\ (customDate.startDate = Null \/ customDate.endDate = Null)

\* Lines 412-421, the dates standing for their yyyy-mm-dd text.
getFilenameDatePart ==
    IF period = "custom"
    THEN <<customDate.startDate, "_to_", customDate.endDate>>
    ELSE IF period = "all" THEN <<"all-time">>
    ELSE <<period>>

\* `finsight-report-${getFilenameDatePart()}.pdf`
Filename == <<"finsight-report-">> \o getFilenameDatePart \o <<".pdf">>

\* One attempt to hand the document over under a filename.
Delivery(via, filename, status) ==
    [via |-> via, filename |-> filename, status |-> status, pages |-> pdf.pages]

\* Lines 412-449 up to the await: the filename, then either the browser
\* download or the start of the native write.
NameAndDeliver ==
    /\ exportPc = "forEachCategory"
    /\ catIdx > Len(CategoryEntries)
    /\ IF GetFilenameDatePartThrows
       THEN /\ exportPc' = "unhandledRejection"
            /\ UNCHANGED saved
       ELSE IF isNativePlatform
       THEN /\ saved' = Append(saved, Delivery("Filesystem.writeFile", Filename, "pending"))
            /\ exportPc' = "writeFile"
       ELSE /\ saved' = Append(saved, Delivery("pdf.save", Filename, "saved"))
            /\ exportPc' = "done"
    /\ UNCHANGED <<isNativePlatform, logoImg, pdf, yPos, catIdx, rowIdx, alerts, csvFiles>>
    /\ UNCHANGED orchVars
    /\ UNCHANGED <<records, summary, chartData>>

\* Lines 431-439: the write succeeded.
WriteFileResolves ==
    /\ exportPc = "writeFile"
    /\ saved' = [saved EXCEPT ![Len(saved)].status = "written"]
    /\ alerts' = Append(alerts, "PDF exported successfully to Documents")
    /\ exportPc' = "done"
    /\ UNCHANGED <<isNativePlatform, logoImg, pdf, yPos, catIdx, rowIdx, csvFiles>>
    /\ UNCHANGED orchVars
    /\ UNCHANGED <<records, summary, chartData>>

WriteFileRejectsNoFallback ==
    /\ exportPc = "writeFile"
    /\ saved' = [saved EXCEPT ![Len(saved)].status = "failed"]
    /\ exportPc' = "done"
    /\ UNCHANGED <<isNativePlatform, logoImg, pdf, yPos, catIdx, rowIdx, alerts, csvFiles>>
    /\ UNCHANGED orchVars
    /\ UNCHANGED <<records, summary, chartData>>

\* Lines 440-444: pdf.output or the write failed; fall back to pdf.save
\* with the same filename constant.
WriteFileRejects ==
    /\ exportPc = "writeFile"
    /\ saved' = Append([saved EXCEPT ![Len(saved)].status = "failed"],
                       Delivery("pdf.save", saved[Len(saved)].filename, "saved"))
    /\ exportPc' = "done"
    /\ UNCHANGED <<isNativePlatform, logoImg, pdf, yPos, catIdx, rowIdx, alerts, csvFiles>>
    /\ UNCHANGED orchVars
    /\ UNCHANGED <<records, summary, chartData>>

(***************************************************************************)
(* exportToCSVReport (lines 457-479)                                       *)
(***************************************************************************)
CsvRowNotesFirst(expense) ==
    <<[key |-> "Notes", value |-> expense.notes],
      [key |-> "Date", value |-> expense.date],
      [key |-> "Description", value |-> expense.description],
      [key |-> "Category", value |-> CategoryName(expense.category)],
      [key |-> "Amount", value |-> expense.amount]>>

\* The object literal of lines 466-472, its properties in the order they
\* are written.
CsvRow(expense) ==
    <<[key |-> "Date", value |-> expense.date],
      [key |-> "Description", value |-> expense.description],
      [key |-> "Category", value |-> CategoryName(expense.category)],
      [key |-> "Amount", value |-> expense.amount],
      [key |-> "Notes", value |-> expense.notes]>>

\* `finsight-expenses-${period}-${today}.csv`
CsvFilename == <<"finsight-expenses-", period, "-", "today", ".csv">>

\* exportToCSV of ../utils/helpers: one file under the given name, its
\* columns the properties of the first object in their order, one row per
\* object.
exportToCSV(csvData, filename) ==
    [filename |-> filename,
     columns |-> [j \in 1..Len(csvData[1]) |-> csvData[1][j].key],
     rows |-> [i \in 1..Len(csvData) |->
                 [j \in 1..Len(csvData[i]) |-> csvData[i][j].value]]]

\* The whole handler.
ExportToCSVReport ==
    /\ ControlsRendered
    /\ exportPc = "idle"
    /\ IF Len(expenses) = 0
       THEN /\ alerts' = Append(alerts, "No expenses to export for the selected period")
            /\ UNCHANGED csvFiles
       ELSE /\ csvFiles' = Append(csvFiles,
                                  exportToCSV([i \in 1..Len(expenses) |-> CsvRow(expenses[i])],
                                              CsvFilename))
            /\ UNCHANGED alerts
    /\ exportPc' = "csvReturned"
    /\ UNCHANGED <<isNativePlatform, logoImg, pdf, yPos, catIdx, rowIdx, saved>>
    /\ UNCHANGED orchVars
    /\ UNCHANGED <<records, summary, chartData>>

(***************************************************************************)
(* One export from a rendered report: any period, any held dataset, the    *)
(* summary being the aggregation of the held records.  The export reads    *)
(* the state its render closed over, so no refresh is interleaved.         *)
(***************************************************************************)
InitExport ==
    /\ period \in Periods
    /\ customDate \in IF period = "custom"
                      THEN [startDate : PickerDates \cup {Null},
                            endDate : PickerDates \cup {Null}]
                      ELSE {NoCustomDate}
    /\ expenses \in ExportDatasets
    /\ reportData = processReportData(expenses)
    /\ budgets = <<"budget">>
    /\ loading = FALSE
    /\ error = FALSE
    /\ inflight = <<>>
    /\ reqSeq = IF period \in {"month", "custom"} THEN 1 ELSE 2
    /\ installed = reqSeq
    /\ lastOutcome = "ok"
    /\ heldRange = IF period = "custom"
                   THEN DateRange(MountPeriod, MountCustomDate)
                   ELSE DateRange(period, customDate)
    /\ records = <<>>
    /\ summary = EmptyObject
    /\ \E native \in BOOLEAN : ExportNotStarted(native)

NextExport ==
    \/ ExportToPDF
    \/ \E img \in LogoImages : LogoLoads(img)
    \/ LogoFails
    \/ SectionHeader
    \/ Row
    \/ SectionEnd
    \/ NameAndDeliver
    \/ WriteFileResolves
    \/ WriteFileRejects
    \/ ExportToCSVReport

SpecExport == InitExport /\ [][NextExport]_vars

(***************************************************************************)
(* Vocabulary of the claims                                                *)
(***************************************************************************)
\* This step issued a remote getExpenses call.
FetchIssued == Len(inflight') > Len(inflight)

\* This step ended a fetchReportData call (its finally block ran).
RefreshFinished ==
    \/ Len(inflight') < Len(inflight)
    \/ reqSeq' # reqSeq /\ lastOutcome' = "incomplete"

\* This step replaced the held records and summary.
ResultInstalled == installed' # installed

\* Nothing of a fetched dataset is held.  The {} the component starts with
\* is counted as empty too, so that a violation never rests on it.
HoldsNoData == expenses = <<>> /\ reportData \in {EmptySummary, EmptyObject}

\* The sum of the values of a mapping, added as JavaScript adds them.
RECURSIVE SumOfValues(_)
SumOfValues(obj) ==
    IF obj = <<>> THEN Num(0)
    ELSE Plus(SumOfValues(SubSeq(obj, 1, Len(obj) - 1)), obj[Len(obj)].value)

Parsable(expense) == ~IsNaN(parseFloat(expense.amount))

Aggregated == summary # EmptyObject

(***************************************************************************)
(* C1.  Overlapping refreshes: once both have completed, the held records  *)
(* and summary are those of the refresh that started last, whichever       *)
(* settles first.  Stated of every step that installs a result: it never   *)
(* replaces the held result by that of a refresh that started earlier.     *)
(* Violated: fetchReportData has no generation check, so the call that     *)
(* settles last installs last, and the earlier refresh's result is what    *)
(* is held when both are done.                                             *)
(***************************************************************************)
C1_StartedLastWins == [][ResultInstalled => installed' > installed]_vars

(***************************************************************************)
(* C2.  While the period is 'custom' with a bound unset, no trigger issues *)
(* a remote expense fetch.  Stated of every step that ends in such a       *)
(* state.  Violated by handleDataUpdate, which calls the first render's    *)
(* fetchReportData (period 'month') whatever is selected now.              *)
(***************************************************************************)
C2_NoFetchWhileIncomplete ==
    [][CustomIncomplete(period', customDate') => ~FetchIssued]_vars

(***************************************************************************)
(* C3.  Period 'custom' with a bound unset and no refresh in flight: the   *)
(* held summary is the empty summary and the held records are empty.       *)
(* Violated: selecting 'custom' runs no fetchReportData at all, the        *)
(* previous period's data stay.                                            *)
(***************************************************************************)
C3_IncompleteCustomIsEmpty ==
    (CustomIncomplete(period, customDate) /\ inflight = <<>>) => HoldsNoData

(***************************************************************************)
(* C4.  A mutation-notification event starts a refresh for the period and  *)
(* custom bounds selected when the event arrives.  Stated of every step    *)
(* that handles such an event: it is the step fetchReportData takes for    *)
(* the current selection.  Violated: the handler is the first render's.    *)
(***************************************************************************)
C4_EventRefreshUsesCurrentSelection ==
    [][(\E ev \in Events : HandleDataUpdate(ev))
          => FetchReportData(period, customDate)]_vars

(***************************************************************************)
(* C5.  After a refresh that failed at a remote call the held summary is   *)
(* the empty summary and the held records are empty.  Violated: the catch  *)
(* block reports the error and leaves expenses and reportData as they are. *)
(***************************************************************************)
C5_FailedRefreshShowsEmpty == lastOutcome = "failed" => HoldsNoData

(***************************************************************************)
(* C6.  While a refresh awaits a remote call, loading is true.  Violated:  *)
(* with two refreshes overlapping, the finally block of the one that       *)
(* settles first clears loading while the other still awaits.              *)
(***************************************************************************)
C6_LoadingWhileInFlight == inflight # <<>> => loading

(***************************************************************************)
(* C7.  Every refresh leaves loading false when it ends, on every path     *)
(* (result installed, remote call rejected, incomplete custom selection),  *)
(* so that loading is false whenever no remote call is awaited any more;   *)
(* and a refresh that ends with a result installs the records it fetched   *)
(* and their aggregation, also after an earlier refresh has failed.        *)
(* Stated of every step.                                                   *)
(***************************************************************************)
C7_RefreshEndsNotLoading ==
    [][/\ RefreshFinished => ~loading'
       /\ inflight' = <<>> => ~loading'
       /\ (RefreshFinished /\ lastOutcome' = "ok") =>
            \E i \in 1..Len(inflight) :
                /\ inflight[i].awaiting = "getBudgets"
                /\ inflight' = Without(i)
                /\ expenses' = OrEmptyArray(inflight[i].expensesResponse)
                /\ reportData' = processReportData(expenses')]_vars

\* A refresh failed, a later one succeeded and its records are held.
C7_Witness ==
    /\ error
    /\ lastOutcome = "ok"
    /\ reqSeq > 1
    /\ installed = reqSeq
    /\ inflight = <<>>
    /\ ~loading
    /\ expenses # <<>>
    /\ reportData = processReportData(expenses)

(***************************************************************************)
(* C8.  The values of categoryTotals add up to totalSpent, and so do the   *)
(* values of dailyTotals, for every record sequence.  Violated by a        *)
(* sequence with an unparsable amount (C10): totalSpent stays NaN, while   *)
(* (categoryTotals[k] || 0) restarts a NaN entry from 0.                   *)
(***************************************************************************)
C8_TotalsAddUp ==
    Aggregated =>
        /\ SumOfValues(summary.categoryTotals) = summary.totalSpent
        /\ SumOfValues(summary.dailyTotals) = summary.totalSpent

(***************************************************************************)
(* C9.  averageTransaction is totalSpent / transactionCount when           *)
(* transactionCount > 0 and 0 when it is 0.  The quotient is stated by     *)
(* multiplication: averageTransaction * transactionCount = totalSpent      *)
(* (and the quotient of NaN is NaN).                                       *)
(***************************************************************************)
C9_AverageIsTotalOverCount ==
    Aggregated =>
        LET avg == summary.averageTransaction
            total == summary.totalSpent
            count == summary.transactionCount
        IN IF count = 0 THEN avg = Num(0)
           ELSE IF IsNaN(total) THEN IsNaN(avg)
           ELSE /\ ~IsNaN(avg)
                /\ avg[1] * count * total[2] = total[1] * avg[2]

\* Three records whose average is no whole number.
C9_Witness ==
    /\ Aggregated
    /\ summary.transactionCount = 3
    /\ ~IsNaN(summary.averageTransaction)
    /\ summary.averageTransaction[2] = 3

(***************************************************************************)
(* C10.  A record whose amount does not parse is skipped: the totals are   *)
(* those of the sequence without it and transactionCount counts the        *)
(* records accumulated.  Violated: parseFloat's NaN is added like any      *)
(* amount and transactionCount is expenses.length.                         *)
(***************************************************************************)
C10_UnparsableSkipped ==
    Aggregated =>
        LET accumulated == SelectSeq(records, Parsable)
            expected == processReportData(accumulated)
        IN /\ summary.totalSpent = expected.totalSpent
           /\ summary.categoryTotals = expected.categoryTotals
           /\ summary.dailyTotals = expected.dailyTotals
           /\ summary.transactionCount = Len(accumulated)

(***************************************************************************)
(* C11.  processReportData does not depend on the order of the records:    *)
(* for every permutation of the record sequence it returns the same        *)
(* totalSpent, the same categoryTotals and dailyTotals mappings (the same  *)
(* keys with the same values, whatever the insertion order), the same      *)
(* transactionCount and the same averageTransaction.  Violated through     *)
(* the NaN of C10: (NaN || 0) + amount restarts a category's total, so a   *)
(* total depends on whether the unparsable record comes first or last.     *)
(***************************************************************************)
\* The rearrangements of a sequence s.
Rearrangements(s) ==
    {[i \in 1..Len(s) |-> s[f[i]]] :
        f \in {g \in [1..Len(s) -> 1..Len(s)] :
                  \A i, j \in 1..Len(s) : i # j => g[i] # g[j]}}

\* An object as a mapping: its properties, without their insertion order.
Mapping(obj) == {<<obj[i].key, obj[i].value>> : i \in 1..Len(obj)}

SameSummary(a, b) ==
    /\ a.totalSpent = b.totalSpent
    /\ Mapping(a.categoryTotals) = Mapping(b.categoryTotals)
    /\ Mapping(a.dailyTotals) = Mapping(b.dailyTotals)
    /\ a.transactionCount = b.transactionCount
    /\ a.averageTransaction = b.averageTransaction

C11_PermutationInvariant ==
    Aggregated =>
        \A permuted \in Rearrangements(records) :
            SameSummary(processReportData(permuted), summary)

\* What the document holds of one kind.
DrawnOf(kind) == {d \in {pdf.drawn[i] : i \in 1..Len(pdf.drawn)} : d.kind = kind}

(***************************************************************************)
(* C12.  The overflow check precedes the write: no line-item row is drawn  *)
(* with the cursor past the bottom margin (270).  Violated: the check of   *)
(* lines 396-399 follows the row, and nothing checks the cursor between a  *)
(* section's header (which moves it by 24) and the section's first row.    *)
(***************************************************************************)
C12_NoRowPastMargin == \A row \in DrawnOf("row") : row.at <= PageLimit

(***************************************************************************)
(* C13.  A section's header bar (height 12) is drawn only where it fits    *)
(* above the bottom margin (270).  Violated: the only check before a       *)
(* header is the one after the previous section (lines 402-405), which     *)
(* lets the cursor stand anywhere up to 270.                               *)
(***************************************************************************)
C13_HeaderBarFits == \A bar \in DrawnOf("sectionHeader") : bar.bottom <= PageLimit

\* The category loop has finished: the whole document is laid out.
LaidOut ==
    \/ exportPc \in {"writeFile", "done"}
    \/ exportPc = "forEachCategory" /\ catIdx > Len(CategoryEntries)

\* The document has one section and its first row is drawn.
SingleSection == Len(CategoryEntries) = 1 /\ DrawnOf("row") # {}

\* Where that section's first row is drawn.
FirstRowAt == (CHOOSE row \in DrawnOf("row") : row.expense = 1).at

(***************************************************************************)
(* C14.  A single category of N line items: every row is drawn entirely    *)
(* on the page that is current when it is drawn (its fill and its text     *)
(* lie between the page's top and its height, 297), and once laid out the  *)
(* document has more than one page if N exceeds what the first page holds  *)
(* (rows are 8 apart from the first row's position down to 270).           *)
(***************************************************************************)
C14_LongSectionPaginates ==
    SingleSection =>
        /\ \A row \in DrawnOf("row") :
              /\ row.page \in 1..pdf.pages
              /\ 0 <= row.top
              /\ row.bottom <= PageHeight
              /\ row.text \in row.top..PageHeight
        /\ (LaidOut /\ FirstRowAt + 8 * (Len(expenses) - 1) > PageLimit) => pdf.pages > 1

\* A delivered single-section document of three pages, rows on each.
C14_Witness ==
    /\ exportPc = "done"
    /\ SingleSection
    /\ FirstRowAt + 8 * (Len(expenses) - 1) > PageLimit
    /\ pdf.pages = 3
    /\ \A p \in 1..3 : \E row \in DrawnOf("row") : row.page = p

(***************************************************************************)
(* The on-screen Category Breakdown (lines 982-984)                        *)
(***************************************************************************)
\* b - a > 0 for the comparator of .sort(([,a], [,b]) => b - a): a sorts
\* after b.  A NaN difference counts as 0.
SortsAfter(a, b) == ~IsNaN(a) /\ ~IsNaN(b) /\ a[1] * b[2] < b[1] * a[2]

\* entry put into a sorted list behind everything it does not sort before
\* (Array.prototype.sort is stable).
InsertSorted(sorted, entry) ==
    LET before == {i \in 1..Len(sorted) : SortsAfter(sorted[i].value, entry.value)}
        at == IF before = {} THEN Len(sorted) + 1
              ELSE CHOOSE i \in before : \A j \in before : i <= j
    IN SubSeq(sorted, 1, at - 1) \o <<entry>> \o SubSeq(sorted, at, Len(sorted))

RECURSIVE SortDescending(_)
SortDescending(entries) ==
    IF entries = <<>> THEN <<>>
    ELSE InsertSorted(SortDescending(SubSeq(entries, 1, Len(entries) - 1)),
                      entries[Len(entries)])

\* Object.entries(reportData.categoryTotals).sort(([,a], [,b]) => b - a)
OnScreenBreakdown == SortDescending(CategoryEntries)

\* The categories of the document's sections, in the order drawn.
SectionOrder ==
    LET bars == SelectSeq(pdf.drawn, LAMBDA d : d.kind = "sectionHeader")
    IN [i \in 1..Len(bars) |-> bars[i].category]

(***************************************************************************)
(* C15.  The document's category sections come in descending order of      *)
(* category total, the order of the on-screen breakdown.  Violated: the    *)
(* document iterates Object.entries(categoryTotals) unsorted (line 354),   *)
(* which is the order in which the categories first occur in the records.  *)
(***************************************************************************)
C15_SectionsByDescendingTotal ==
    LaidOut => SectionOrder = [i \in 1..Len(OnScreenBreakdown) |-> OnScreenBreakdown[i].key]

\* The document went out: a native write that succeeded or a pdf.save.
Delivered == {i \in 1..Len(saved) : saved[i].status \in {"written", "saved"}}

(***************************************************************************)
(* C16.  If the logo image fails to load, the export still completes:      *)
(* title, period line, summary block and category sections are laid out    *)
(* and the document is delivered.  Violated: the whole layout and the      *)
(* delivery are the body of logoImg.onload and no onerror handler exists,  *)
(* so after a failed load no step of the export is left to run.            *)
(***************************************************************************)
C16_LogoFailureStillDelivers ==
    exportPc = "logoError" =>
        /\ DrawnOf("title") # {}
        /\ DrawnOf("period") # {}
        /\ DrawnOf("summaryBox") # {}
        /\ Delivered # {}

(***************************************************************************)
(* C17.  A failure raised while the document is laid out or named is       *)
(* reported through the error handler.  Violated: the throw happens in     *)
(* the onload callback, after exportToPDF's try/catch has returned, so     *)
(* handleError is never called for it.                                     *)
(***************************************************************************)
C17_LayoutFailureReported == exportPc = "unhandledRejection" => error

(***************************************************************************)
(* C18.  An export whose layout completes ends in exactly one of native    *)
(* write success or browser-style save: off a native platform the          *)
(* document is saved directly; on one, a failed write is followed by the   *)
(* save of the same document under the same filename.  Neither is          *)
(* reported as an error, and no export fails after its layout completed.   *)
(***************************************************************************)
C18_NativeThenFallback ==
    /\ exportPc = "unhandledRejection" => DrawnOf("breakdownTitle") = {}
    /\ exportPc = "done" =>
          /\ Cardinality(Delivered) = 1
          /\ ~error
          /\ \A i \in 1..Len(saved) :
                saved[i].filename = Filename /\ saved[i].pages = pdf.pages
          /\ IF isNativePlatform
             THEN \/ /\ Len(saved) = 1
                     /\ saved[1].via = "Filesystem.writeFile"
                     /\ saved[1].status = "written"
                  \/ /\ Len(saved) = 2
                     /\ saved[1].via = "Filesystem.writeFile"
                     /\ saved[1].status = "failed"
                     /\ saved[2].via = "pdf.save"
                     /\ saved[2].status = "saved"
             ELSE /\ Len(saved) = 1
                  /\ saved[1].via = "pdf.save"
                  /\ saved[1].status = "saved"

\* A native write failed and the document was saved the browser's way.
C18_Witness ==
    /\ exportPc = "done"
    /\ isNativePlatform
    /\ Len(saved) = 2
    /\ saved[1].status = "failed"
    /\ saved[2].via = "pdf.save"
    /\ pdf.pages > 1

\* This step belongs to an export.
ExportStep == exportVars' # exportVars

(***************************************************************************)
(* C19.  No step of exportToPDF or exportToCSVReport issues a remote       *)
(* fetch or changes the period, the custom bounds, the held records, the   *)
(* held summary or the loading flag.                                       *)
(***************************************************************************)
C19_ExportsLeaveStateAlone ==
    [][ExportStep =>
          /\ ~FetchIssued
          /\ UNCHANGED <<period, customDate, expenses, reportData, loading,
                         inflight, reqSeq>>]_vars

\* Both a delivered document and nothing fetched since the report rendered.
C19_Witness ==
    /\ exportPc = "done"
    /\ Delivered # {}
    /\ expenses # <<>>
    /\ reportData = processReportData(expenses)
    /\ ~loading
    /\ inflight = <<>>

(***************************************************************************)
(* C20.  exportToCSVReport with no held records shows the empty-dataset    *)
(* notice and produces no file; with held records it produces exactly one  *)
(* file, its columns Date, Description, Category, Amount, Notes in that    *)
(* order and one row per held record, in the records' order.               *)
(***************************************************************************)
C20_CsvRowPerRecord ==
    exportPc = "csvReturned" =>
        IF expenses = <<>>
        THEN /\ csvFiles = <<>>
             /\ alerts = <<"No expenses to export for the selected period">>
        ELSE /\ alerts = <<>>
             /\ Len(csvFiles) = 1
             /\ csvFiles[1].columns = <<"Date", "Description", "Category", "Amount", "Notes">>
             /\ Len(csvFiles[1].rows) = Len(expenses)
             /\ \A i \in 1..Len(expenses) :
                   LET row == csvFiles[1].rows[i]
                   IN /\ row[1] = expenses[i].date
                      /\ row[2] = expenses[i].description
                      /\ row[3] = CategoryName(expenses[i].category)
                      /\ row[4] = expenses[i].amount
                      /\ row[5] = expenses[i].notes

\* A file of two categories' records.
C20_Witness ==
    /\ exportPc = "csvReturned"
    /\ Len(csvFiles) = 1
    /\ Len(csvFiles[1].rows) = Len(expenses)
    /\ \E i, j \in 1..Len(expenses) : expenses[i].category # expenses[j].category

(***************************************************************************)
(* The chart projections (lines 215-257)                                   *)
(***************************************************************************)
\* chartColors of ../utils/helpers: a palette shorter than the longest
\* category list below.
chartColors == <<"#c1", "#c2", "#c3">>

\* array.slice(from, to), positions counted from 0
Slice(array, from, to) ==
    SubSeq(array, from + 1, IF to < Len(array) THEN to ELSE Len(array))

\* Object.entries(reportData.dailyTotals || {})
DailyEntries == IF reportData = EmptyObject THEN <<>> ELSE reportData.dailyTotals

\* object[key]
Lookup(object, key) == object[CHOOSE i \in 1..Len(object) : object[i].key = key].value

\* The UTF-16 code unit of a character of a date key.
CodeUnit(c) == IF c = "/" THEN 47 ELSE 48 + DigitValue(c)

\* a < b as Array.prototype.sort() without a comparator compares strings
RECURSIVE StringBefore(_, _)
StringBefore(a, b) ==
    IF b = <<>> THEN FALSE
    ELSE IF a = <<>> THEN TRUE
    ELSE IF Head(a) = Head(b) THEN StringBefore(Tail(a), Tail(b))
    ELSE CodeUnit(Head(a)) < CodeUnit(Head(b))

InsertString(sorted, key) ==
    LET after == {i \in 1..Len(sorted) : StringBefore(key, sorted[i])}
        at == IF after = {} THEN Len(sorted) + 1
              ELSE CHOOSE i \in after : \A j \in after : i <= j
    IN SubSeq(sorted, 1, at - 1) \o <<key>> \o SubSeq(sorted, at, Len(sorted))

\* keys.sort()
RECURSIVE SortStrings(_)
SortStrings(keys) ==
    IF keys = <<>> THEN <<>>
    ELSE InsertString(SortStrings(SubSeq(keys, 1, Len(keys) - 1)), keys[Len(keys)])

\* entries.sort(([,a], [,b]) => b - a).  With a NaN total the comparator is
\* not a consistent comparison (NaN counts as equal to 5 and to 12, which
\* are not equal), and the order is then whatever the engine's sort
\* happens to produce: any arrangement.
SortOutcomes(entries) ==
    IF \E i \in 1..Len(entries) : IsNaN(entries[i].value)
    THEN {[i \in 1..Len(entries) |-> entries[f[i]]] :
            f \in {g \in [1..Len(entries) -> 1..Len(entries)] :
                      \A i, j \in 1..Len(entries) : i # j => g[i] # g[j]}}
    ELSE {SortDescending(entries)}

\* Lines 215-226.
GetCategoryChartData ==
    /\ chartData = NoChart
    /\ chartData' =
          [of |-> "getCategoryChartData",
           labels |-> [i \in 1..Len(CategoryEntries) |-> CategoryName(CategoryEntries[i].key)],
           data |-> [i \in 1..Len(CategoryEntries) |-> CategoryEntries[i].value],
           backgroundColor |-> Slice(chartColors, 0, Len(CategoryEntries))]
    /\ UNCHANGED <<records, summary, exportVars>>
    /\ UNCHANGED orchVars

\* Lines 228-241.
GetDailyTrendData ==
    /\ chartData = NoChart
    /\ LET sortedDates == SortStrings([i \in 1..Len(DailyEntries) |-> DailyEntries[i].key])
       IN chartData' =
             [of |-> "getDailyTrendData",
              labels |-> sortedDates,
              data |-> [i \in 1..Len(sortedDates) |-> Lookup(DailyEntries, sortedDates[i])],
              backgroundColor |-> <<>>]
    /\ UNCHANGED <<records, summary, exportVars>>
    /\ UNCHANGED orchVars

\* Lines 243-257, sorted being what the sort left in the array.
GetTopCategoriesData(sorted) ==
    /\ chartData = NoChart
    /\ LET sortedCategories == Slice(sorted, 0, 5)
       IN chartData' =
             [of |-> "getTopCategoriesData",
              labels |-> [i \in 1..Len(sortedCategories) |->
                            CategoryName(sortedCategories[i].key)],
              data |-> [i \in 1..Len(sortedCategories) |-> sortedCategories[i].value],
              backgroundColor |-> Slice(chartColors, 0, Len(sortedCategories))]
    /\ UNCHANGED <<records, summary, exportVars>>
    /\ UNCHANGED orchVars

(***************************************************************************)
(* The projections of a rendered report whose records have one category   *)
(* each: up to MaxCategories records with parsable amounts, up to          *)
(* MaxUnparsable records when an amount may fail to parse.                 *)
(***************************************************************************)
CategoryKeys == <<"food", "rent", "travel", "health", "fun", "gifts", "pets", "misc">>

ChartDates == <<[year |-> 2024, month |-> 9, day |-> 2],
                [year |-> 2024, month |-> 10, day |-> 1],
                [year |-> 2024, month |-> 9, day |-> 10]>>

ParsableAmounts == {<<"5">>, <<"1", "2">>}

\* n records, the i-th of the i-th category, with the amounts a and the
\* dates taken in turn starting after the first shift of them.
ChartRecords(n, a, shift) ==
    [i \in 1..n |->
        [amount |-> a[i], category |-> CategoryKeys[i],
         date |-> ChartDates[((i + shift) % Len(ChartDates)) + 1]]]

ChartDatasets ==
    UNION ({{ChartRecords(n, a, shift) :
                a \in [1..n -> ParsableAmounts], shift \in 0..2} : n \in 0..MaxCategories}
           \cup
           {{ChartRecords(n, a, shift) :
                a \in [1..n -> ParsableAmounts \cup {<<"x">>}], shift \in 0..2} :
                n \in 0..MaxUnparsable})

InitCharts ==
    /\ expenses \in ChartDatasets
    /\ reportData = processReportData(expenses)
    /\ period = "month"
    /\ customDate = NoCustomDate
    /\ budgets = <<"budget">>
    /\ loading = FALSE
    /\ error = FALSE
    /\ inflight = <<>>
    /\ reqSeq = 1
    /\ installed = 1
    /\ lastOutcome = "ok"
    /\ heldRange = DateRange(period, customDate)
    /\ records = <<>>
    /\ summary = EmptyObject
    /\ ExportNotStarted(FALSE)

NextCharts ==
    \/ GetCategoryChartData
    \/ GetDailyTrendData
    \/ \E sorted \in SortOutcomes(CategoryEntries) : GetTopCategoriesData(sorted)

SpecCharts == InitCharts /\ [][NextCharts]_vars

\* a < b for two totals that are numbers.
Below(a, b) == ~IsNaN(a) /\ ~IsNaN(b) /\ a[1] * b[2] < b[1] * a[2]

\* Two totals that are the same number.
Tied(a, b) == ~IsNaN(a) /\ a = b

(***************************************************************************)
(* C21.  getTopCategoriesData returns min(5, number of categories)         *)
(* entries of categoryTotals, label and value arrays parallel, by total    *)
(* descending, tied categories in their categoryTotals order, and no       *)
(* category left out ranks before one returned.  Violated through the NaN  *)
(* of C10: with a NaN total b - a is no consistent comparison and the      *)
(* engine's sort may leave a smaller total before a larger one.            *)
(***************************************************************************)
C21_TopFiveDescendingStable ==
    chartData.of = "getTopCategoriesData" =>
        LET entries == CategoryEntries
            n == Len(entries)
            m == Len(chartData.labels)
            from(i) == CHOOSE k \in 1..n :
                          CategoryName(entries[k].key) = chartData.labels[i]
        IN /\ m = IF n < 5 THEN n ELSE 5
           /\ Len(chartData.data) = m
           /\ \A i \in 1..m :
                 /\ \E k \in 1..n : CategoryName(entries[k].key) = chartData.labels[i]
                 /\ chartData.data[i] = entries[from(i)].value
           /\ \A i, j \in 1..m :
                 i < j => /\ ~Below(chartData.data[i], chartData.data[j])
                          /\ Tied(chartData.data[i], chartData.data[j]) => from(i) < from(j)
           /\ \A k \in 1..n \ {from(i) : i \in 1..m} :
                 \A i \in 1..m :
                    /\ ~Below(chartData.data[i], entries[k].value)
                    /\ Tied(chartData.data[i], entries[k].value) => from(i) < k

\* The calendar date a dailyTotals key denotes.
DateOf(key) ==
    CHOOSE d \in {ChartDates[i] : i \in 1..Len(ChartDates)} : toLocaleDateString(d) = key

\* Date d comes before date e in the calendar.
Earlier(d, e) ==
    \/ d.year < e.year
    \/ d.year = e.year /\ d.month < e.month
    \/ d.year = e.year /\ d.month = e.month /\ d.day < e.day

(***************************************************************************)
(* C22.  getDailyTrendData lists the dailyTotals keys ascending by the     *)
(* calendar date they denote, each value being that key's total.           *)
(* Violated: Object.keys(...).sort() has no comparator and so compares     *)
(* the month/day/year strings character by character: '10/1/2024' comes    *)
(* before '9/2/2024', and '9/10/2024' before '9/2/2024'.                   *)
(***************************************************************************)
C22_DailyTrendByCalendarDate ==
    chartData.of = "getDailyTrendData" =>
        /\ Len(chartData.labels) = Len(DailyEntries)
        /\ Len(chartData.data) = Len(chartData.labels)
        /\ {chartData.labels[i] : i \in 1..Len(chartData.labels)}
              = {DailyEntries[i].key : i \in 1..Len(DailyEntries)}
        /\ \A i \in 1..Len(chartData.labels) :
              chartData.data[i] = Lookup(DailyEntries, chartData.labels[i])
        /\ \A i, j \in 1..Len(chartData.labels) :
              i < j => Earlier(DateOf(chartData.labels[i]), DateOf(chartData.labels[j]))

(***************************************************************************)
(* C23.  getCategoryChartData gives every label a colour, the i-th label   *)
(* (counted from 0) the colour palette[i mod palette length], also when    *)
(* there are more categories than palette entries.  Violated:              *)
(* chartColors.slice(0, categories.length) stops at the palette's end      *)
(* instead of wrapping round.                                              *)
(***************************************************************************)
C23_PaletteCycles ==
    chartData.of = "getCategoryChartData" =>
        /\ Len(chartData.backgroundColor) = Len(chartData.labels)
        /\ \A i \in 1..Len(chartData.backgroundColor) :
              chartData.backgroundColor[i] = chartColors[((i - 1) % Len(chartColors)) + 1]

\* The rows of the document in the order drawn.
RowsDrawn == SelectSeq(pdf.drawn, LAMBDA d : d.kind = "row")

(***************************************************************************)
(* C24.  Within a category's sub-table the fill of a row follows the       *)
(* parity of the row's index, so two consecutive rows of a section on the  *)
(* same page are one filled and one unfilled.  Violated: the fill test is  *)
(* (yPos / 7) % 2 < 1 on the cursor, which moves by 8 per row, so two      *)
(* consecutive rows can fall into bands of the same parity.                *)
(***************************************************************************)
C24_RowsAlternate ==
    \A i \in 1..(Len(RowsDrawn) - 1) :
        (RowsDrawn[i].category = RowsDrawn[i + 1].category
            /\ RowsDrawn[i].page = RowsDrawn[i + 1].page)
        => RowsDrawn[i].banded # RowsDrawn[i + 1].banded

(***************************************************************************)
(* C30.  Once the document is laid out every one of its pages carries a    *)
(* drawn element.  Violated: the check after a row (lines 396-399) adds a  *)
(* page also after the last row of the last category, and so does the      *)
(* check after a section (lines 402-405): the document then ends with an   *)
(* empty page.                                                             *)
(***************************************************************************)
C30_NoEmptyPage ==
    LaidOut => \A p \in 1..pdf.pages : \E i \in 1..Len(pdf.drawn) : pdf.drawn[i].page = p

\* This step of the layout appended a page to the document.
PageAppended == pdf.pages >= 1 /\ pdf'.pages > pdf.pages

\* This step of the layout moved the cursor back up.
CursorReset == pdf.pages >= 1 /\ yPos' < yPos

(***************************************************************************)
(* C25.  A page break appends exactly one page and puts the cursor at the  *)
(* top margin (20) in the same step: the cursor never moves back up        *)
(* without a page being appended and no page is appended without the       *)
(* cursor being put at 20.                                                 *)
(***************************************************************************)
C25_PageBreakIsOneStep ==
    [][/\ PageAppended <=> CursorReset
       /\ PageAppended => (pdf'.pages = pdf.pages + 1 /\ yPos' = PageTop)]_vars

\* Just after a break behind a row: a second page, nothing on it yet.
C25_Witness ==
    /\ exportPc = "forEachRow"
    /\ pdf.pages = 2
    /\ yPos = PageTop
    /\ pdf.drawn[Len(pdf.drawn)].kind = "row"
    /\ pdf.drawn[Len(pdf.drawn)].page = 1

\* The category of the section the k-th drawn element lies in: that of the
\* last header bar drawn up to it.
SectionAt(k) ==
    LET bars == {j \in 1..k : pdf.drawn[j].kind = "sectionHeader"}
    IN IF bars = {} THEN ""
       ELSE pdf.drawn[CHOOSE j \in bars : \A h \in bars : h <= j].category

(***************************************************************************)
(* C26.  In the laid-out document every held record is exactly one row,    *)
(* in the section of its own category; the rows of a section follow the    *)
(* order of the records in the held list; there are as many rows as held   *)
(* records.                                                                *)
(***************************************************************************)
C26_OneRowPerRecord ==
    LaidOut =>
        \A rows \in {RowsDrawn} :
            /\ Len(rows) = Len(expenses)
            /\ \A e \in 1..Len(expenses) :
                  Cardinality({r \in 1..Len(rows) : rows[r].expense = e}) = 1
            /\ \A k \in 1..Len(pdf.drawn) :
                  pdf.drawn[k].kind = "row" =>
                     /\ pdf.drawn[k].category = expenses[pdf.drawn[k].expense].category
                     /\ SectionAt(k) = pdf.drawn[k].category
            /\ \A r, q \in 1..Len(rows) :
                  (r < q /\ rows[r].category = rows[q].category)
                  => rows[r].expense < rows[q].expense

\* A delivered document with two sections, one of them of several rows.
C26_Witness ==
    /\ exportPc = "done"
    /\ Len(CategoryEntries) = 2
    /\ Len(RowsDrawn) = Len(expenses)
    /\ Len(expenses) >= 3
    /\ \E r, q \in 1..Len(RowsDrawn) : RowsDrawn[r].category # RowsDrawn[q].category

(***************************************************************************)
(* C27.  The interval the document header prints is the interval the held  *)
(* records were fetched for; with period 'custom', a bound changed after   *)
(* the last Apply does not make them differ.  Stated for the claim's own   *)
(* case: a custom result is held, the last refresh succeeded, no call is   *)
(* in flight, an export can be started and the header can be formatted.    *)
(***************************************************************************)
C27_HeaderIsFetchedInterval ==
    (/\ ControlsRendered
     /\ period = "custom"
     /\ heldRange.of = "custom"
     /\ lastOutcome = "ok"
     /\ inflight = <<>>
     /\ ~PeriodTextThrows)
    => HeaderDateRange = heldRange

(***************************************************************************)
(* C28.  Whenever loading is false the held summary is the aggregation of  *)
(* the held records with all five fields defined, also after a first       *)
(* refresh that failed.                                                    *)
(***************************************************************************)
C28_SummaryIsAggregationOfRecords ==
    ~loading => (reportData # EmptyObject /\ reportData = processReportData(expenses))

(***************************************************************************)
(* C29.  Whenever the selected period is not 'custom' both custom bounds   *)
(* are unset; so a call for period 'all', in flight or installed, has the  *)
(* current instant as its end date.                                        *)
(***************************************************************************)
C29_BoundsUnsetOutsideCustom ==
    /\ period # "custom" => customDate = NoCustomDate
    /\ \A i \in 1..Len(inflight) :
          inflight[i].dateRange.of = "all" => inflight[i].dateRange.endDate = "now"
    /\ heldRange.of = "all" => heldRange.endDate = "now"

\* A custom interval was applied and its result is held; 'all' was then
\* selected and its call is in flight.
C29_Witness ==
    /\ period = "all"
    /\ heldRange.of = "custom"
    /\ heldRange.endDate # Null
    /\ \E i \in 1..Len(inflight) : inflight[i].dateRange.of = "all"

====
